---- MODULE Spec2Model ----
(***************************************************************************)
(* The automatic-simplification search of round-eliminator (src/src/auto.rs)*)
(* as a state machine: the recursive engine AutomaticSimplifications::run   *)
(* and the external iterator AutomaticSimplificationsIntoIterator::next,    *)
(* both built from the same Problem, strategy, maxiter and maxlabels.       *)
(***************************************************************************)
EXTENDS Integers, Sequences, FiniteSets, TLC

VARIABLES
    cfg,        \* the inputs: the Problem, the strategy T : Auto, maxiter, maxlabels
    rec,        \* the engine driven by run(): its sol, best, and what cb received
    sol,        \* iterator: self.auto.sol, the live path
    best,       \* iterator: self.auto.best
    stack,      \* iterator: self.stack, the marker stack
    pc,         \* iterator: "idle" (no call of next() is active) or "running"
    ret,        \* iterator: what the last call of next() returned
    out,        \* the caller's list of the Sequences next() has returned
    lastcall,   \* the last method of the strategy the iterator called
    visited,    \* the paths sol has taken (the nodes of the search tree)
    calls,      \* the calls of should_yield and should_continue the iterator made
    saved,      \* the value sol had before each step now on it was pushed
    prob,       \* a Problem of problem.rs, the receiver of the diagram operations
    outcome,    \* how the last diagram operation called on prob ended
    req,        \* the Request given to request() of simpleapi.rs
    apc,        \* where request() is: idle (not called), called, in a loop, ...
    resp,       \* the Responses the callback f of request() has been called with
    search      \* the search iterator request() consumes: its items, how many taken

autovars == <<cfg, rec, sol, best, stack, pc, ret, out, lastcall, visited, calls, saved>>

apivars == <<req, apc, resp, search>>

vars == <<cfg, rec, sol, best, stack, pc, ret, out, lastcall, visited, calls, saved, prob, outcome,
          req, apc, resp, search>>

(***************************************************************************)
(* Bounds of the model.                                                    *)
(***************************************************************************)
MaxIter == 5        \* the largest maxiter
BranchIter == 2     \* speedups add labels only when maxiter <= BranchIter
MaxLabels == 2      \* the initial Problem has 0..MaxLabels labels
MaxItems == 3       \* a search yields 0..MaxItems items to request()
MaxRenames == 2     \* a Renaming has 0..MaxRenames pairs
NumLabels == 2      \* the labels of a Problem of problem.rs are among 1..NumLabels

\* A path has the Initial step, at most maxiter Speedup steps and, when every
\* simplification removes a label, at most as many Simplify steps as there are
\* labels to remove: MaxLabels and one more per speedup that adds one.  No
\* path of a strategy that keeps its contract reaches MaxDepth steps; a
\* strategy that breaks it (see WellBehaved) is cut off there.
MaxDepth == 2 + MaxIter + MaxLabels + BranchIter

Simplifications == {"A", "B"}

(***************************************************************************)
(* Problem: the collaborator's handle.  Its constraints are abstracted to  *)
(* id, the transformations that produced it from the initial Problem, and  *)
(* labels, its number of labels; chars and result record whether           *)
(* assign_chars and as_result have been applied to it.                     *)
(***************************************************************************)
Problem(id, labels, chars, result) ==
    [id |-> id, labels |-> labels, chars |-> chars, result |-> result]

InitialProblem == Problem(<<>>, cfg.labels, TRUE, FALSE)

num_labels(p) == p.labels

speedup(p) == Problem(Append(p.id, "speedup"), p.labels + cfg.growth, FALSE, FALSE)

assign_chars(p) == [p EXCEPT !.chars = TRUE]

as_result(p) == [p EXCEPT !.result = TRUE]

\* The Problem without the caches as_result fills in.
Bare(p) == [p EXCEPT !.result = FALSE]

(***************************************************************************)
(* Step and Sequence (auto.rs 9-13, 33-100).                               *)
(***************************************************************************)
Initial(p) == [tag |-> "Initial", simpl |-> "none", p |-> p]
Simplify(s, p) == [tag |-> "Simplify", simpl |-> s, p |-> p]
Speedup(p) == [tag |-> "Speedup", simpl |-> "none", p |-> p]

Sequence_new(p) == [steps |-> <<Initial(p)>>, speedups |-> 0]

Last(s) == s[Len(s)]
Front(s) == SubSeq(s, 1, Len(s) - 1)

current(seq) == Last(seq.steps).p

\* make_printable() finalizing the last step only.
make_printable_last(seq) ==
    [seq EXCEPT !.steps[Len(seq.steps)].p = as_result(seq.steps[Len(seq.steps)].p)]

make_printable(seq) ==
    [seq EXCEPT !.steps = [i \in 1..Len(seq.steps) |->
                              [seq.steps[i] EXCEPT !.p = as_result(seq.steps[i].p)]]]

push(seq, step) == [seq EXCEPT !.steps = Append(seq.steps, step)]

\* pop() that leaves the last step in place.
pop_keep(seq) == seq

pop(seq) == [seq EXCEPT !.steps = Front(seq.steps)]

\* pop_speedup() that leaves the counter as it is.
pop_speedup_uncounted(seq) == pop(seq)

pop_speedup(seq) == pop([seq EXCEPT !.speedups = seq.speedups - 1])

\* push_speedup() that forgets the counter.
push_speedup_uncounted(seq) ==
    push(seq, Speedup(assign_chars(speedup(current(seq)))))

\* push_speedup() whose speedup also overwrites the Problem it is taken of
\* (current_mut() hands it out mutably).
push_speedup_inplace(seq) ==
    LET counted == [seq EXCEPT !.speedups = seq.speedups + 1]
        new == assign_chars(speedup(current(counted)))
        over == [counted EXCEPT !.steps[Len(seq.steps)].p = new]
    IN  push(over, Speedup(new))

push_speedup(seq) ==
    LET counted == [seq EXCEPT !.speedups = seq.speedups + 1]
        new == assign_chars(speedup(current(counted)))
    IN  push(counted, Speedup(new))

(***************************************************************************)
(* The strategy T : Auto (auto.rs 20-30).  The trait's implementations are *)
(* inputs of the engine; cfg picks one of a family of them.                *)
(***************************************************************************)
T_simplify(p, simpl) ==
    LET drop == IF simpl = "A" THEN (IF cfg.lazy THEN 0 ELSE 1) ELSE 2
        left == IF p.labels > drop THEN p.labels - drop ELSE 0
    IN  Problem(Append(p.id, simpl), left, p.chars, FALSE)

T_simplifications(seq, maxlabels) == cfg.cands

should_yield(seq, bst, maxiter) ==
    CASE cfg.yield.kind = "always" -> TRUE
      [] cfg.yield.kind = "never" -> FALSE
      [] cfg.yield.kind = "more" -> seq.speedups > bst.speedups
      [] cfg.yield.kind = "speedups" -> seq.speedups = cfg.yield.k
      [] cfg.yield.kind = "at" -> current(seq).id = cfg.yield.path

should_continue(seq, bst, maxiter) ==
    CASE cfg.cont = "budget" -> seq.speedups < maxiter
      [] cfg.cont = "ahead" -> seq.speedups < maxiter /\ seq.speedups >= bst.speedups
      [] cfg.cont = "never" -> FALSE
      [] cfg.cont = "always" -> TRUE

push_simplification(seq, simpl) ==
    push(seq, Simplify(simpl, T_simplify(current(seq), simpl)))

\* pop_simplification() undoing as pop_speedup does.
pop_simplification_counted(seq) == pop_speedup(seq)

pop_simplification(seq) == pop(seq)

(***************************************************************************)
(* AutomaticSimplifications (auto.rs 102-161).                             *)
(***************************************************************************)
AutomaticSimplifications_new(p, maxiter, maxlabels) ==
    LET s == Sequence_new(p)
    IN  [sol |-> s, best |-> s, maxiter |-> maxiter, maxlabels |-> maxlabels]

Marker(st) == [st |-> st, iter |-> <<>>]
SimplifySimplify(iter) == [st |-> "SimplifySimplify", iter |-> iter]

into_iter(auto) == [auto |-> auto, stack |-> <<Marker("Problem")>>]

\* A candidate iterator handing out its last item first.
iter_next_back(iter) == [item |-> Last(iter), rest |-> Front(iter)]

\* iter.next() on a candidate iterator that is not exhausted: the item and
\* the iterator left.
iter_next(iter) == [item |-> Head(iter), rest |-> Tail(iter)]

\* The test with < for <=.
speedup_next_strict(seq, maxlabels) == num_labels(current(seq)) < maxlabels

\* The test turned around.
speedup_next_above(seq, maxlabels) == num_labels(current(seq)) > maxlabels

\* The test of simplify() and of State::Simplify: speedup, or simplifications.
speedup_next(seq, maxlabels) == num_labels(current(seq)) <= maxlabels

\* The path of a Sequence as the tree node it is: the id of its last Problem.
Node(seq) == current(seq).id

\* The number of Speedup steps of a Sequence.
NumSpeedups(seq) == Cardinality({i \in 1..Len(seq.steps) : seq.steps[i].tag = "Speedup"})

\* The speedup counter of a Sequence is the number of its Speedup steps.
Counted(seq) == seq.speedups = NumSpeedups(seq)

\* A Sequence has steps, the first is Initial and no other is (auto.rs 40:
\* new makes it so; push and pop work at the other end).
Rooted(seq) ==
    /\ seq.steps # <<>>
    /\ seq.steps[1].tag = "Initial"
    /\ \A i \in 2..Len(seq.steps) : seq.steps[i].tag # "Initial"

\* A call of should_yield or should_continue: the path it was given (at), the
\* best it was given (best, and whether that best is a finalized snapshot)
\* and what it returned.
Call(fn, seq, bst, val) ==
    [fn |-> fn, at |-> Node(seq), best |-> Node(bst),
     printable |-> current(bst).result, val |-> val]

(***************************************************************************)
(* The recursive engine: run, problem, simplify (auto.rs 120-147).  A run  *)
(* is one blocking call, so it is computed as the code recurses; e carries *)
(* the engine's sol and best, the Sequences cb has received (out), the     *)
(* value of sol at each of those calls of cb (live), the nodes it has been *)
(* at (nodes), its calls of should_yield and should_continue (calls),      *)
(* whether after every undo sol was what it was before the step was pushed *)
(* (restored), whether at every call, push and undo the speedup counters    *)
(* were the numbers of Speedup steps and no decrement was of a counter 0    *)
(* (counted), whether at every call and undo sol had its Initial step first *)
(* and no other, and every undo was of a sol of two or more steps (rooted), *)
(* and whether the recursion stayed within MaxDepth (ok).                  *)
(***************************************************************************)
RECURSIVE problem(_), simplify(_), simplify_loop(_, _)

problem(e) ==
    IF ~e.ok THEN e
    ELSE LET y == should_yield(e.sol, e.best, cfg.maxiter)
             newbest == make_printable(e.sol)
             e0 == [e EXCEPT !.calls = Append(e.calls, Call("should_yield", e.sol, e.best, y)),
                             !.counted = e.counted /\ Counted(e.sol) /\ Counted(e.best),
                             !.rooted = e.rooted /\ Rooted(e.sol)]
             e1 == IF y
                   THEN [e0 EXCEPT !.best = newbest, !.out = Append(e.out, newbest),
                                   !.live = Append(e.live, e.sol)]
                   ELSE e0
             c == should_continue(e1.sol, e1.best, cfg.maxiter)
             e2 == [e1 EXCEPT !.calls = Append(e1.calls, Call("should_continue", e1.sol, e1.best, c))]
         IN  IF c THEN simplify(e2) ELSE e2

simplify(e) ==
    IF ~e.ok THEN e
    ELSE IF Len(e.sol.steps) >= MaxDepth THEN [e EXCEPT !.ok = FALSE]
    ELSE IF speedup_next(e.sol, cfg.maxlabels)
    THEN LET pushed == push_speedup(e.sol)
             e1 == problem([e EXCEPT !.sol = pushed,
                                     !.nodes = e.nodes \cup {Node(pushed)},
                                     !.counted = e.counted /\ Counted(e.sol)])
         IN  IF e1.ok
             THEN [e1 EXCEPT !.sol = pop_speedup(e1.sol),
                             !.restored = e1.restored /\ pop_speedup(e1.sol) = e.sol,
                             !.counted = e1.counted /\ e1.sol.speedups >= 1
                                                    /\ Counted(pop_speedup(e1.sol)),
                             !.rooted = e1.rooted /\ Len(e1.sol.steps) >= 2
                                                  /\ Rooted(pop_speedup(e1.sol))]
             ELSE e1
    ELSE simplify_loop(e, T_simplifications(e.sol, cfg.maxlabels))

simplify_loop(e, iter) ==
    IF ~e.ok \/ iter = <<>> THEN e
    ELSE LET simpl == iter_next(iter)
             pushed == push_simplification(e.sol, simpl.item)
             e1 == simplify([e EXCEPT !.sol = pushed,
                                      !.nodes = e.nodes \cup {Node(pushed)},
                                      !.counted = e.counted /\ Counted(pushed)])
         IN  IF e1.ok
             THEN simplify_loop([e1 EXCEPT !.sol = pop_simplification(e1.sol),
                                           !.restored = e1.restored
                                                        /\ pop_simplification(e1.sol) = e.sol,
                                           !.counted = e1.counted
                                                       /\ Counted(pop_simplification(e1.sol)),
                                           !.rooted = e1.rooted /\ Len(e1.sol.steps) >= 2
                                                      /\ Rooted(pop_simplification(e1.sol))],
                                simpl.rest)
             ELSE e1

run(auto) ==
    problem([sol |-> auto.sol, best |-> auto.best, out |-> <<>>, live |-> <<>>,
             nodes |-> {Node(auto.sol)}, calls |-> <<>>, restored |-> TRUE,
             counted |-> TRUE, rooted |-> TRUE, ok |-> TRUE])

(***************************************************************************)
(* The inputs.  A strategy is a yield policy, a continue policy, the list  *)
(* of candidates simplifications returns and whether simplification "A"    *)
(* fails to reduce the number of labels (lazy).                            *)
(***************************************************************************)
Yield(kind, k, path) == [kind |-> kind, k |-> k, path |-> path]

Transforms == Simplifications \cup {"speedup"}

AtPaths == {<<>>} \cup {<<a>> : a \in Transforms}
                  \cup {<<a, b>> : a \in Transforms, b \in Transforms}

BestYields == {Yield("always", 0, <<>>), Yield("more", 0, <<>>)}
                 \cup {Yield("speedups", k, <<>>) : k \in {0, 1, 2}}

PathYields == {Yield("at", 0, n) : n \in AtPaths}

Strategies ==
    [yield : BestYields, cont : {"budget", "ahead", "never", "always"}, lazy : {FALSE}]
    \cup [yield : PathYields, cont : {"budget"}, lazy : {FALSE}]
    \cup [yield : {Yield("always", 0, <<>>)}, cont : {"budget"}, lazy : {TRUE}]

CandLists == {<<>>, <<"A">>, <<"A", "B">>, <<"B", "A">>}

Budgets ==
    {b \in [maxiter : (0..BranchIter) \cup {MaxIter}, growth : {0, 1}] :
        b.maxiter > BranchIter => b.growth = 0}

Configs ==
    {[labels |-> l, maxiter |-> b.maxiter, maxlabels |-> m, growth |-> b.growth,
      cands |-> c, lazy |-> s.lazy, yield |-> s.yield, cont |-> s.cont] :
        l \in 0..MaxLabels, m \in {0, 1}, b \in Budgets,
        c \in CandLists, s \in Strategies}

\* The strategy keeps the contract the engine relies on to terminate.
WellBehaved ==
    /\ ~cfg.lazy
    /\ cfg.cont # "always"

(***************************************************************************)
(* Problem as problem.rs declares it (round-eliminator-lib/src/problem.rs  *)
(* 11-22), reduced to the fields the diagram operations read: the labels   *)
(* of mapping_label_text and the Options diagram_indirect and              *)
(* diagram_direct.  An Option is None or Some(v).                          *)
(***************************************************************************)
None == <<>>
Some(v) == <<v>>

LibProblem(labels, indirect, direct) ==
    [labels |-> labels, diagram_indirect |-> indirect, diagram_direct |-> direct]

\* problem.rs 25-54: a parsed Problem has no diagram.
from_string(ls) == LibProblem(ls, None, None)

\* problem.rs 56-60
labels(p) == p.labels

\* How a call ends: it returns a value, or it panics with a message.
NoCall == [op |-> "none", kind |-> "none", v |-> None]
Returned(op, v) == [op |-> op, kind |-> "returned", v |-> v]
Panicked(op, msg) == [op |-> op, kind |-> "panic", v |-> msg]

\* The map h after the loops of an adjacency operation: an entry for every
\* endpoint the first loop inserts at and for every label, holding the set of
\* the other endpoints of its edges.
Adjacency(keys, edges) == [k \in keys |-> {e[2] : e \in {d \in edges : d[1] = k}}]

\* An adjacency operation that takes a missing diagram for an empty one
\* (unwrap_or_default for expect).
reachability_adj_defaulted(p) ==
    LET edges == IF p.diagram_indirect = None THEN {} ELSE p.diagram_indirect[1]
    IN  Returned("reachability_adj",
                 Adjacency({e[1] : e \in edges} \cup labels(p), edges))

\* problem.rs 62-75
diagram_indirect_to_reachability_adj(p) ==
    IF p.diagram_indirect = None
    THEN Panicked("reachability_adj", "diagram required, but still not computed")
    ELSE LET edges == p.diagram_indirect[1]
         IN  Returned("reachability_adj",
                      Adjacency({e[1] : e \in edges} \cup labels(p), edges))

\* problem.rs 98-111
diagram_indirect_to_inverse_reachability_adj(p) ==
    IF p.diagram_indirect = None
    THEN Panicked("inverse_reachability_adj", "diagram required, but still not computed")
    ELSE LET edges == {<<e[2], e[1]>> : e \in p.diagram_indirect[1]}
         IN  Returned("inverse_reachability_adj",
                      Adjacency({e[1] : e \in edges} \cup labels(p), edges))

\* relax_merge: label from is replaced by label dest; the Problem it returns
\* is a new one, without a diagram.
relax_merge(p, from, dest) ==
    LibProblem(IF from \in p.labels THEN (p.labels \ {from}) \cup {dest} ELSE p.labels,
               None, None)

\* The loops of merge_equivalent_labels over the groups left and, within the
\* first of them, over the labels left of its group.
RECURSIVE merge_groups(_, _)
merge_groups(p, groups) ==
    IF groups = <<>> THEN p
    ELSE LET g == Head(groups)
         IN  IF g.group = <<>>
             THEN merge_groups(p, Tail(groups))
             ELSE merge_groups(relax_merge(p, Head(g.group), g.dest),
                               <<[g EXCEPT !.group = Tail(g.group)]>> \o Tail(groups))

\* merge_equivalent.rs 6-15
merge_equivalent_labels(p) ==
    IF p.diagram_direct = None
    THEN Panicked("merge_equivalent_labels",
                  "in order to merge equivalent labels, the diagram is required, but it has not been computed")
    ELSE Returned("merge_equivalent_labels", merge_groups(p, p.diagram_direct[1].groups))

(***************************************************************************)
(* simpleapi.rs: the operations behind request().  The Problem they take   *)
(* is the one of the simulation crate; of it the operations read the maps  *)
(* from label text to label, from old label text to old label and from   *)
(* label to the set of old labels it stands for (the last two are Options).*)
(* What Problem's own methods return is an input of the operation.        *)
(***************************************************************************)
Ok(v) == [kind |-> "Ok", v |-> v]
Err(s) == [kind |-> "Err", v |-> s]
Panic(msg) == [kind |-> "panic", v |-> msg]

SimProblem(text_label, text_oldlabel, label_oldset) ==
    [map_text_label |-> text_label, map_text_oldlabel |-> text_oldlabel,
     map_label_oldset |-> label_oldset]

\* (p, p.as_result()): a Problem with its printable form.
RProblem(np) == [problem |-> np, result |-> "as_result"]

\* HashMap lookups: the keys of a map given as pairs, and the value of a key.
Keys(map) == {kv[1] : kv \in map}
Lookup(map, k) == (CHOOSE kv \in map : kv[1] = k)[2]

\* map_to_inv_hashmap: the pairs turned round.
Inverse(map) == {<<kv[2], kv[1]>> : kv \in map}

\* simpleapi.rs 22-26; parsed is what Problem::from_text returned.
new_problem(parsed) ==
    IF parsed.kind = "Ok" THEN Ok(RProblem(parsed.v)) ELSE parsed

\* simpleapi.rs 28-32; sped is what p.speedup returned.
simpleapi_speedup(sped) ==
    IF sped.kind = "Ok" THEN Ok(RProblem(sped.v)) ELSE sped

\* simpleapi.rs 34-39; pairs are the pairs of the diagram and the unreachable ones.
possible_simplifications(pairs) == [pairs |-> pairs, texts |-> "map"]

\* simpleapi.rs 42-47
possible_addarrow(pairs) == [pairs |-> pairs, texts |-> "map"]

\* simpleapi.rs 49-53; np is what p.replace returned.
simpleapi_simplify(np) == RProblem(np)

\* simpleapi.rs 55-59; np is what p.relax_add_arrow returned.
addarrow(np) == RProblem(np)

\* simpleapi.rs 61-74; hardened is what p.harden returned (an Option).
harden(p, v, hardened) ==
    IF \E x \in v : x \notin Keys(p.map_text_label)
    THEN Panic("key not found")
    ELSE IF hardened = None
    THEN Err("The new problem would have empty constraints!")
    ELSE Ok(RProblem(hardened[1]))

\* simpleapi.rs 82-86: a label is one character other than a parenthesis, or
\* a text in parentheses with no other closing parenthesis inside.
valid1(lab) == Len(lab) = 1 /\ lab # <<"(">> /\ lab # <<")">>

valid2(lab) ==
    /\ Len(lab) > 1
    /\ Head(lab) = "("
    /\ Last(lab) = ")"
    /\ Cardinality({i \in 1..Len(lab) : lab[i] = ")"}) = 1

\* simpleapi.rs 76-115
rename(p, v) ==
    IF Cardinality({v[i][2] : i \in 1..Len(v)}) # Len(v)
    THEN Err("Labels must be different!")
    ELSE IF \E i \in 1..Len(v) : ~valid1(v[i][2]) /\ ~valid2(v[i][2])
    THEN Err("Labels must be either single characters, or strings contained in parentheses!")
    ELSE IF p.map_text_oldlabel = None \/ p.map_label_oldset = None
    THEN Panic("called Option::unwrap() on a None value")
    ELSE LET text_to_oldlabel == p.map_text_oldlabel[1]
             oldset_to_label == Inverse(p.map_label_oldset[1])
             oldlabelset_to_oldset(set) == {Lookup(text_to_oldlabel, t) : t \in set}
         IN  IF \E i \in 1..Len(v) : \E t \in v[i][1] : t \notin Keys(text_to_oldlabel)
             THEN Panic("key not found")
             ELSE IF \E i \in 1..Len(v) :
                        oldlabelset_to_oldset(v[i][1]) \notin Keys(oldset_to_label)
             THEN Panic("key not found")
             ELSE Ok(RProblem([p EXCEPT !.map_text_label =
                        {<<v[i][2], Lookup(oldset_to_label, oldlabelset_to_oldset(v[i][1]))>> :
                            i \in 1..Len(v)}]))

\* seq.as_result().steps turned into (problem, step, result) triples.
AsSteps(seq) == [steps |-> seq]

\* simpleapi.rs 117-141: the items of the lower-bound search, each Ok mapped
\* to its steps, in the order the search yields them.
autolb(items) ==
    [i \in 1..Len(items) |->
        IF items[i].kind = "Ok" THEN Ok(AsSteps(items[i].v)) ELSE items[i]]

\* simpleapi.rs 143-172
autoub(items) ==
    [i \in 1..Len(items) |->
        IF items[i].kind = "Ok" THEN Ok(AsSteps(items[i].v)) ELSE items[i]]

\* simpleapi.rs 175-187
Request(kind, p, arg) == [kind |-> kind, p |-> p, arg |-> arg]

\* simpleapi.rs 190-198
Response(tag, v) == [tag |-> tag, v |-> v]
Done == Response("Done", None)
Pong == Response("Pong", None)

\* No request has been made: request() is not running.
NoRequest == Request("none", None, None)
NoSearch == [items |-> <<>>, taken |-> 0]

ApiIdle ==
    /\ req = NoRequest
    /\ apc = "idle"
    /\ resp = <<>>
    /\ search = NoSearch

(***************************************************************************)
(* Init: both engines constructed from the same inputs, the iterator by    *)
(* into_iter.                                                              *)
(***************************************************************************)
AutoInit ==
    /\ LET auto == AutomaticSimplifications_new(InitialProblem, cfg.maxiter, cfg.maxlabels)
           it == into_iter(auto)
       IN  /\ rec = [ran |-> "no", sol |-> auto.sol, best |-> auto.best,
                     out |-> <<>>, live |-> <<>>, nodes |-> {Node(auto.sol)},
                     calls |-> <<>>, restored |-> TRUE, counted |-> TRUE,
                     rooted |-> TRUE]
           /\ sol = it.auto.sol
           /\ best = it.auto.best
           /\ stack = it.stack
           /\ visited = {Node(it.auto.sol)}
    /\ pc = "idle"
    /\ ret = "NoCall"
    /\ out = <<>>
    /\ lastcall = "none"
    /\ calls = <<>>
    /\ saved = <<>>

Init ==
    /\ cfg \in Configs
    /\ AutoInit
    /\ prob = from_string({})
    /\ outcome = NoCall
    /\ ApiIdle

\* run(cb): the whole call, made on the engine built for it before the
\* iterator built from the same inputs is first asked for a value (the two
\* are separate objects: the order of their steps changes nothing); it
\* returns unless the recursion never ends.
Run ==
    /\ rec.ran = "no"
    /\ pc = "idle"
    /\ ret = "NoCall"
    /\ LET e == run(rec)
       IN  rec' = [ran |-> IF e.ok THEN "returned" ELSE "diverged",
                   sol |-> e.sol, best |-> e.best, out |-> e.out, live |-> e.live,
                   nodes |-> e.nodes, calls |-> e.calls,
                   restored |-> e.restored, counted |-> e.counted,
                   rooted |-> e.rooted]
    /\ UNCHANGED <<saved, calls, apivars, prob, outcome, cfg, sol, best, stack, pc, ret, out, lastcall, visited>>

Top == Last(stack)

\* The caller calls next().
CallNext ==
    /\ pc = "idle"
    /\ pc' = "running"
    /\ UNCHANGED <<saved, calls, apivars, prob, outcome, cfg, rec, sol, best, stack, ret, out, lastcall, visited>>

\* auto.rs 185-187
ReturnNone ==
    /\ pc = "running"
    /\ stack = <<>>
    /\ ret' = "None"
    /\ pc' = "idle"
    /\ UNCHANGED <<saved, calls, apivars, prob, outcome, cfg, rec, sol, best, stack, out, lastcall, visited>>

\* State::Problem keeping the loop going after a yield.
StepProblem_noreturn ==
    /\ pc = "running"
    /\ stack # <<>>
    /\ Top.st = "Problem"
    /\ stack' = Append(Front(stack), Marker("ProblemAfterCheckYield"))
    /\ lastcall' = "should_yield"
    /\ calls' = Append(calls, Call("should_yield", sol, best, should_yield(sol, best, cfg.maxiter)))
    /\ IF should_yield(sol, best, cfg.maxiter)
       THEN /\ best' = make_printable(sol)
            /\ out' = Append(out, best')
            /\ ret' = "Some"
            /\ UNCHANGED pc
       ELSE UNCHANGED <<best, out, ret, pc>>
    /\ UNCHANGED <<saved, apivars, prob, outcome, cfg, rec, sol, visited>>

\* State::Problem handing out the best it had before replacing it.
StepProblem_stale ==
    /\ pc = "running"
    /\ stack # <<>>
    /\ Top.st = "Problem"
    /\ stack' = Append(Front(stack), Marker("ProblemAfterCheckYield"))
    /\ lastcall' = "should_yield"
    /\ calls' = Append(calls, Call("should_yield", sol, best, should_yield(sol, best, cfg.maxiter)))
    /\ IF should_yield(sol, best, cfg.maxiter)
       THEN /\ best' = make_printable(sol)
            /\ out' = Append(out, best)
            /\ ret' = "Some"
            /\ pc' = "idle"
       ELSE UNCHANGED <<best, out, ret, pc>>
    /\ UNCHANGED <<saved, apivars, prob, outcome, cfg, rec, sol, visited>>

\* State::Problem overwriting best step by step with sol, so that steps of
\* the old best beyond the length of sol stay.
StepProblem_merge ==
    /\ pc = "running"
    /\ stack # <<>>
    /\ Top.st = "Problem"
    /\ stack' = Append(Front(stack), Marker("ProblemAfterCheckYield"))
    /\ lastcall' = "should_yield"
    /\ calls' = Append(calls, Call("should_yield", sol, best, should_yield(sol, best, cfg.maxiter)))
    /\ IF should_yield(sol, best, cfg.maxiter)
       THEN /\ best' = [make_printable(sol) EXCEPT !.steps =
                           @ \o SubSeq(best.steps, Len(sol.steps) + 1, Len(best.steps))]
            /\ out' = Append(out, best')
            /\ ret' = "Some"
            /\ pc' = "idle"
       ELSE UNCHANGED <<best, out, ret, pc>>
    /\ UNCHANGED <<saved, apivars, prob, outcome, cfg, rec, sol, visited>>

\* State::Problem leaving visit when it yields: ProblemAfterCheckYield is
\* pushed only if should_yield was false.
StepProblem_yieldends ==
    /\ pc = "running"
    /\ stack # <<>>
    /\ Top.st = "Problem"
    /\ lastcall' = "should_yield"
    /\ calls' = Append(calls, Call("should_yield", sol, best, should_yield(sol, best, cfg.maxiter)))
    /\ IF should_yield(sol, best, cfg.maxiter)
       THEN /\ stack' = Front(stack)
            /\ best' = make_printable(sol)
            /\ out' = Append(out, best')
            /\ ret' = "Some"
            /\ pc' = "idle"
       ELSE /\ stack' = Append(Front(stack), Marker("ProblemAfterCheckYield"))
            /\ UNCHANGED <<best, out, ret, pc>>
    /\ UNCHANGED <<saved, apivars, prob, outcome, cfg, rec, sol, visited>>

\* auto.rs 189-197
StepProblem ==
    /\ pc = "running"
    /\ stack # <<>>
    /\ Top.st = "Problem"
    /\ stack' = Append(Front(stack), Marker("ProblemAfterCheckYield"))
    /\ lastcall' = "should_yield"
    /\ calls' = Append(calls, Call("should_yield", sol, best, should_yield(sol, best, cfg.maxiter)))
    /\ IF should_yield(sol, best, cfg.maxiter)
       THEN /\ best' = make_printable(sol)
            /\ out' = Append(out, best')
            /\ ret' = "Some"
            /\ pc' = "idle"
       ELSE UNCHANGED <<best, out, ret, pc>>
    /\ UNCHANGED <<saved, apivars, prob, outcome, cfg, rec, sol, visited>>

\* State::ProblemAfterCheckYield descending without asking should_continue.
StepProblemAfterCheckYield_always ==
    /\ pc = "running"
    /\ stack # <<>>
    /\ Top.st = "ProblemAfterCheckYield"
    /\ UNCHANGED lastcall
    /\ stack' = Append(Front(stack), Marker("Simplify"))
    /\ UNCHANGED <<saved, calls, apivars, prob, outcome, cfg, rec, sol, best, pc, ret, out, visited>>

\* State::ProblemAfterCheckYield asking should_continue and descending
\* whatever the answer.
StepProblemAfterCheckYield_deaf ==
    /\ pc = "running"
    /\ stack # <<>>
    /\ Top.st = "ProblemAfterCheckYield"
    /\ lastcall' = "should_continue"
    /\ calls' = Append(calls, Call("should_continue", sol, best, should_continue(sol, best, cfg.maxiter)))
    /\ stack' = Append(Front(stack), Marker("Simplify"))
    /\ UNCHANGED <<saved, apivars, prob, outcome, cfg, rec, sol, best, pc, ret, out, visited>>

\* auto.rs 198-203
StepProblemAfterCheckYield ==
    /\ pc = "running"
    /\ stack # <<>>
    /\ Top.st = "ProblemAfterCheckYield"
    /\ lastcall' = "should_continue"
    /\ calls' = Append(calls, Call("should_continue", sol, best, should_continue(sol, best, cfg.maxiter)))
    /\ stack' = IF should_continue(sol, best, cfg.maxiter)
                THEN Append(Front(stack), Marker("Simplify"))
                ELSE Front(stack)
    /\ UNCHANGED <<saved, apivars, prob, outcome, cfg, rec, sol, best, pc, ret, out, visited>>

\* State::Simplify pushing, with a Speedup step, the marker that undoes a
\* Simplify step.
StepSimplify_mismatch ==
    /\ pc = "running"
    /\ stack # <<>>
    /\ Top.st = "Simplify"
    /\ Len(sol.steps) < MaxDepth
    /\ IF speedup_next(sol, cfg.maxlabels)
       THEN /\ sol' = push_speedup(sol)
            /\ stack' = Front(stack) \o <<Marker("SimplifyAfterSimplifyCall"), Marker("Problem")>>
            /\ saved' = Append(saved, sol)
            /\ UNCHANGED lastcall
       ELSE /\ stack' = Append(Front(stack),
                               SimplifySimplify(T_simplifications(sol, cfg.maxlabels)))
            /\ lastcall' = "simplifications"
            /\ UNCHANGED <<sol, saved>>
    /\ visited' = visited \cup {Node(sol')}
    /\ UNCHANGED <<calls, apivars, prob, outcome, cfg, rec, best, pc, ret, out>>

\* auto.rs 204-213
StepSimplify ==
    /\ pc = "running"
    /\ stack # <<>>
    /\ Top.st = "Simplify"
    /\ Len(sol.steps) < MaxDepth
    /\ IF speedup_next(sol, cfg.maxlabels)
       THEN /\ sol' = push_speedup(sol)
            /\ stack' = Front(stack) \o <<Marker("SimplifyAfterProblemCall"), Marker("Problem")>>
            /\ saved' = Append(saved, sol)
            /\ UNCHANGED lastcall
       ELSE /\ stack' = Append(Front(stack),
                               SimplifySimplify(T_simplifications(sol, cfg.maxlabels)))
            /\ lastcall' = "simplifications"
            /\ UNCHANGED <<sol, saved>>
    /\ visited' = visited \cup {Node(sol')}
    /\ UNCHANGED <<calls, apivars, prob, outcome, cfg, rec, best, pc, ret, out>>

\* auto.rs 214-217
StepSimplifyAfterProblemCall ==
    /\ pc = "running"
    /\ stack # <<>>
    /\ Top.st = "SimplifyAfterProblemCall"
    /\ sol' = pop_speedup(sol)
    /\ stack' = Front(stack)
    /\ saved' = Front(saved)
    /\ UNCHANGED <<calls, apivars, prob, outcome, cfg, rec, best, pc, ret, out, lastcall, visited>>

\* State::SimplifySimplify descending into visit (State::Problem) on the
\* child instead of into expand (State::Simplify).
StepSimplifySimplify_visit ==
    /\ pc = "running"
    /\ stack # <<>>
    /\ Top.st = "SimplifySimplify"
    /\ IF Top.iter # <<>>
       THEN /\ Len(sol.steps) < MaxDepth
            /\ sol' = push_simplification(sol, iter_next(Top.iter).item)
            /\ stack' = Append(Front(stack), SimplifySimplify(iter_next(Top.iter).rest))
                          \o <<Marker("SimplifyAfterSimplifyCall"), Marker("Problem")>>
            /\ lastcall' = "simplify"
            /\ saved' = Append(saved, sol)
       ELSE /\ stack' = Front(stack)
            /\ UNCHANGED <<sol, lastcall, saved>>
    /\ visited' = visited \cup {Node(sol')}
    /\ UNCHANGED <<calls, apivars, prob, outcome, cfg, rec, best, pc, ret, out>>

\* State::SimplifySimplify undoing a step of sol when its candidates run out
\* (the undo of the loop body done once more at the loop's exit).
StepSimplifySimplify_undo ==
    /\ pc = "running"
    /\ stack # <<>>
    /\ Top.st = "SimplifySimplify"
    /\ IF Top.iter # <<>>
       THEN /\ Len(sol.steps) < MaxDepth
            /\ sol' = push_simplification(sol, iter_next(Top.iter).item)
            /\ stack' = Append(Front(stack), SimplifySimplify(iter_next(Top.iter).rest))
                          \o <<Marker("SimplifyAfterSimplifyCall"), Marker("Simplify")>>
            /\ lastcall' = "simplify"
            /\ saved' = Append(saved, sol)
            /\ visited' = visited \cup {Node(sol')}
       ELSE /\ stack' = Front(stack)
            /\ sol' = pop_simplification(sol)
            /\ UNCHANGED <<lastcall, saved, visited>>
    /\ UNCHANGED <<calls, apivars, prob, outcome, cfg, rec, best, pc, ret, out>>

\* auto.rs 218-226
StepSimplifySimplify ==
    /\ pc = "running"
    /\ stack # <<>>
    /\ Top.st = "SimplifySimplify"
    /\ IF Top.iter # <<>>
       THEN /\ Len(sol.steps) < MaxDepth
            /\ sol' = push_simplification(sol, iter_next(Top.iter).item)
            /\ stack' = Append(Front(stack), SimplifySimplify(iter_next(Top.iter).rest))
                          \o <<Marker("SimplifyAfterSimplifyCall"), Marker("Simplify")>>
            /\ lastcall' = "simplify"
            /\ saved' = Append(saved, sol)
       ELSE /\ stack' = Front(stack)
            /\ UNCHANGED <<sol, lastcall, saved>>
    /\ visited' = visited \cup {Node(sol')}
    /\ UNCHANGED <<calls, apivars, prob, outcome, cfg, rec, best, pc, ret, out>>

\* auto.rs 227-230
StepSimplifyAfterSimplifyCall ==
    /\ pc = "running"
    /\ stack # <<>>
    /\ Top.st = "SimplifyAfterSimplifyCall"
    /\ sol' = pop_simplification(sol)
    /\ stack' = Front(stack)
    /\ saved' = Front(saved)
    /\ UNCHANGED <<calls, apivars, prob, outcome, cfg, rec, best, pc, ret, out, lastcall, visited>>

\* One step of the iterator or of its caller.
IterNext ==
    \/ CallNext
    \/ ReturnNone
    \/ StepProblem
    \/ StepProblemAfterCheckYield
    \/ StepSimplify
    \/ StepSimplifyAfterProblemCall
    \/ StepSimplifySimplify
    \/ StepSimplifyAfterSimplifyCall

Next == Run \/ IterNext

Spec == Init /\ [][Next]_vars

\* The inputs the liveness of the search is checked for: every budget, every
\* Problem, every candidate list and every should_continue, with the yield
\* policies that depend on best.
LiveInit == Init /\ cfg.yield.kind \in {"always", "more"}

\* The program runs on: the loop of next() executes to its end, and the
\* caller keeps calling next().  (run() is one step: it needs no fairness.)
LiveSpec == LiveInit /\ [][Next]_vars /\ WF_vars(IterNext)

(***************************************************************************)
(* The diagram operations called on a Problem.  They take &self: prob is   *)
(* left as it is.  A panic is fatal: nothing is called after it.           *)
(***************************************************************************)
Labels == 1..NumLabels

\* The edges of a diagram: pairs of different labels.
Edges == {e \in Labels \X Labels : e[1] # e[2]}

IndirectDiagrams == {None} \cup {Some(es) : es \in SUBSET Edges}

\* A merge group: the label kept and the labels merged into it.
Groups == {<<>>} \cup {<<a>> : a \in Labels} \cup {<<a, b>> : a \in Labels, b \in Labels}

GroupLists ==
    {<<>>}
    \cup {<<[dest |-> d, group |-> g]>> : d \in Labels, g \in Groups}
    \cup {<<[dest |-> a, group |-> <<a, b>>], [dest |-> b, group |-> <<b>>]>> :
             a \in Labels, b \in Labels}

DirectDiagrams == {None} \cup {Some([groups |-> gs, edges |-> {}]) : gs \in GroupLists}

LibProblems ==
    {LibProblem(ls, i, d) : ls \in SUBSET Labels, i \in IndirectDiagrams, d \in DirectDiagrams}

\* The inputs of the search while the diagram operations are looked at.
IdleConfig == CHOOSE c \in Configs : c.cands = <<>> /\ c.cont = "never"

LibInit ==
    /\ cfg = IdleConfig
    /\ AutoInit
    /\ prob \in LibProblems
    /\ outcome = NoCall
    /\ ApiIdle

Call_merge_equivalent_labels ==
    /\ outcome.kind # "panic"
    /\ outcome' = merge_equivalent_labels(prob)
    /\ UNCHANGED <<prob, autovars, apivars>>

Call_diagram_indirect_to_reachability_adj ==
    /\ outcome.kind # "panic"
    /\ outcome' = diagram_indirect_to_reachability_adj(prob)
    /\ UNCHANGED <<prob, autovars, apivars>>

Call_diagram_indirect_to_inverse_reachability_adj ==
    /\ outcome.kind # "panic"
    /\ outcome' = diagram_indirect_to_inverse_reachability_adj(prob)
    /\ UNCHANGED <<prob, autovars, apivars>>

LibNext ==
    \/ Call_merge_equivalent_labels
    \/ Call_diagram_indirect_to_reachability_adj
    \/ Call_diagram_indirect_to_inverse_reachability_adj

LibSpec == LibInit /\ [][LibNext]_vars

(***************************************************************************)
(* request() of simpleapi.rs: one call, on one Request.  Each arm of its   *)
(* match is a step; the loops over a search take one item per step.  A     *)
(* panic in an operation ends the call there: nothing is sent after it.    *)
(***************************************************************************)
TextLabel == {<<"A", 1>>, <<"B", 2>>}
TextOldlabel == {<<"x", 1>>, <<"y", 2>>}
LabelOldset == {<<1, {1}>>, <<2, {1, 2}>>}

\* A Problem as new_problem makes it (no old labels), one as a speedup makes
\* it, and one with only one of the two maps of old labels.
FreshProblem == SimProblem(TextLabel, None, None)
SpedProblem == SimProblem(TextLabel, Some(TextOldlabel), Some(LabelOldset))
SimProblems ==
    {FreshProblem, SpedProblem, SimProblem(TextLabel, Some(TextOldlabel), None)}

\* Keeping: the label texts to keep ("C" is no label of the Problems).
Keepings == SUBSET {"A", "B", "C"}

\* Renaming: pairs of a set of old label texts and the new text, a text being
\* its characters ("z" is no old label of the Problems).
RenameSets == {{"x"}, {"y"}, {"x", "y"}, {"z"}}
LabelTexts == {<<"A">>, <<")">>, <<"(", "A", ")">>, <<"A", "B">>}
RenamePairs == RenameSets \X LabelTexts
Renamings == UNION {[1..n -> RenamePairs] : n \in 0..MaxRenames}

\* What a search yields: Sequences and errors, MaxItems of them at most.
Items == {Ok("s1"), Ok("s2"), Err("search failed")}
ItemLists == UNION {[1..n -> Items] : n \in 0..MaxItems}

Requests ==
    {Request("Ping", None, None), Request("NewProblem", None, <<"left", "right">>)}
    \cup {Request(k, p, None) :
             k \in {"Speedup", "PossibleSimplifications", "PossibleAddarrow", "Simplify",
                    "Addarrow", "AutoLb", "AutoUb"},
             p \in SimProblems}
    \cup {Request("Harden", p, k) : p \in SimProblems, k \in Keepings}
    \cup {Request("Rename", p, v) : p \in SimProblems, v \in Renamings}

ApiInit ==
    /\ cfg = IdleConfig
    /\ AutoInit
    /\ prob = from_string({})
    /\ outcome = NoCall
    /\ req \in Requests
    /\ apc = "called"
    /\ resp = <<>>
    /\ search = NoSearch

\* What Problem's methods may return to the operations.
Parsed == {Ok(FreshProblem), Err("parse error")}
Sped == {Ok(SpedProblem), Err("speedup failed")}
Hardened == {None, Some(FreshProblem)}

\* f(Response::tag(r)) on Ok(r), f(Response::E(s)) on Err(s); a panic of the
\* operation leaves request() before f is called.
Answer(tag, r, next) ==
    IF r.kind = "panic"
    THEN apc' = "panicked" /\ resp' = resp
    ELSE /\ resp' = Append(resp, IF r.kind = "Ok" THEN Response(tag, r.v)
                                                  ELSE Response("E", r.v))
         /\ apc' = next

\* simpleapi.rs 205-208
Request_Ping ==
    /\ apc = "called"
    /\ req.kind = "Ping"
    /\ resp' = Append(resp, Pong)
    /\ apc' = "returned"
    /\ UNCHANGED <<req, search, prob, outcome, autovars>>

\* simpleapi.rs 209-212
Request_NewProblem ==
    /\ apc = "called"
    /\ req.kind = "NewProblem"
    /\ \E parsed \in Parsed : Answer("P", new_problem(parsed), "after_match")
    /\ UNCHANGED <<req, search, prob, outcome, autovars>>

\* simpleapi.rs 213-216
Request_Speedup ==
    /\ apc = "called"
    /\ req.kind = "Speedup"
    /\ \E sped \in Sped : Answer("P", simpleapi_speedup(sped), "after_match")
    /\ UNCHANGED <<req, search, prob, outcome, autovars>>

\* simpleapi.rs 217-220
Request_PossibleSimplifications ==
    /\ apc = "called"
    /\ req.kind = "PossibleSimplifications"
    /\ \E pairs \in SUBSET {<<1, 2>>, <<2, 1>>} :
          Answer("S", Ok(possible_simplifications(pairs)), "after_match")
    /\ UNCHANGED <<req, search, prob, outcome, autovars>>

\* simpleapi.rs 221-224
Request_PossibleAddarrow ==
    /\ apc = "called"
    /\ req.kind = "PossibleAddarrow"
    /\ \E pairs \in SUBSET {<<1, 2>>, <<2, 1>>} :
          Answer("S", Ok(possible_addarrow(pairs)), "after_match")
    /\ UNCHANGED <<req, search, prob, outcome, autovars>>

\* simpleapi.rs 225-228
Request_Simplify ==
    /\ apc = "called"
    /\ req.kind = "Simplify"
    /\ Answer("P", Ok(simpleapi_simplify(FreshProblem)), "after_match")
    /\ UNCHANGED <<req, search, prob, outcome, autovars>>

\* simpleapi.rs 229-232
Request_Addarrow ==
    /\ apc = "called"
    /\ req.kind = "Addarrow"
    /\ Answer("P", Ok(addarrow(FreshProblem)), "after_match")
    /\ UNCHANGED <<req, search, prob, outcome, autovars>>

\* simpleapi.rs 233-236
Request_Harden ==
    /\ apc = "called"
    /\ req.kind = "Harden"
    /\ \E hardened \in Hardened : Answer("P", harden(req.p, req.arg, hardened), "after_match")
    /\ UNCHANGED <<req, search, prob, outcome, autovars>>

\* simpleapi.rs 237-240
Request_Rename ==
    /\ apc = "called"
    /\ req.kind = "Rename"
    /\ Answer("P", rename(req.p, req.arg), "after_match")
    /\ UNCHANGED <<req, search, prob, outcome, autovars>>

\* simpleapi.rs 241-242: the search is set up; its items are what it will
\* yield, one at each turn of the loop.
Request_AutoLb ==
    /\ apc = "called"
    /\ req.kind = "AutoLb"
    /\ \E items \in ItemLists : search' = [items |-> autolb(items), taken |-> 0]
    /\ apc' = "lb_loop"
    /\ UNCHANGED <<req, resp, prob, outcome, autovars>>

\* simpleapi.rs 242-247: one turn of the loop, or its end.
AutoLb_Item ==
    /\ apc = "lb_loop"
    /\ IF search.taken < Len(search.items)
       THEN /\ Answer("L", search.items[search.taken + 1], "lb_loop")
            /\ search' = [search EXCEPT !.taken = search.taken + 1]
       ELSE /\ apc' = "after_match"
            /\ UNCHANGED <<resp, search>>
    /\ UNCHANGED <<req, prob, outcome, autovars>>

\* simpleapi.rs 249-250
Request_AutoUb ==
    /\ apc = "called"
    /\ req.kind = "AutoUb"
    /\ \E items \in ItemLists : search' = [items |-> autoub(items), taken |-> 0]
    /\ apc' = "ub_loop"
    /\ UNCHANGED <<req, resp, prob, outcome, autovars>>

\* simpleapi.rs 250-255
AutoUb_Item ==
    /\ apc = "ub_loop"
    /\ IF search.taken < Len(search.items)
       THEN /\ Answer("U", search.items[search.taken + 1], "ub_loop")
            /\ search' = [search EXCEPT !.taken = search.taken + 1]
       ELSE /\ apc' = "after_match"
            /\ UNCHANGED <<resp, search>>
    /\ UNCHANGED <<req, prob, outcome, autovars>>

\* simpleapi.rs 258
Request_Done ==
    /\ apc = "after_match"
    /\ resp' = Append(resp, Done)
    /\ apc' = "returned"
    /\ UNCHANGED <<req, search, prob, outcome, autovars>>

\* simpleapi.rs 200-259
request ==
    \/ Request_Ping
    \/ Request_NewProblem
    \/ Request_Speedup
    \/ Request_PossibleSimplifications
    \/ Request_PossibleAddarrow
    \/ Request_Simplify
    \/ Request_Addarrow
    \/ Request_Harden
    \/ Request_Rename
    \/ Request_AutoLb
    \/ AutoLb_Item
    \/ Request_AutoUb
    \/ AutoUb_Item
    \/ Request_Done

ApiSpec == ApiInit /\ [][request]_vars

(***************************************************************************)
(* Properties.                                                             *)
(***************************************************************************)
IsPrefix(s, t) == Len(s) <= Len(t) /\ s = SubSeq(t, 1, Len(s))

HasSimplify(seq) == \E i \in 1..Len(seq.steps) : seq.steps[i].tag = "Simplify"

\* C1: the Sequences next() returns are, in order and element for element
\* (steps and speedup counter), the Sequences run() passes to its callback:
\* once run() has been called, what next() has returned so far is at every
\* moment an initial part of run()'s list, next() returns None only if run()
\* returned, and then the two lists are equal.
C1_Equivalence ==
    /\ rec.ran # "no" => IsPrefix(out, rec.out)
    /\ (rec.ran # "no" /\ ret = "None") => rec.ran = "returned" /\ out = rec.out

C1_Witness ==
    /\ ret = "None"
    /\ rec.ran = "returned"
    /\ Len(out) >= 3
    /\ \E i \in 1..Len(out) : HasSimplify(out[i])
    /\ cfg.yield.kind = "more"

\* C2: once next() has returned None the marker stack is empty and sol is the
\* single Initial step with speedup counter 0, and no later step (a further
\* call of next() included) changes sol, best or the marker stack or makes
\* the returned value anything but None.
C2_Exhausted ==
    [][ret = "None" =>
          /\ stack = <<>>
          /\ sol = Sequence_new(InitialProblem)
          /\ sol' = sol /\ best' = best /\ stack' = stack
          /\ ret' = "None" /\ out' = out]_vars

\* A call of next() made after None was returned is in progress, after a
\* search that produced Sequences with steps beyond Initial.
C2_Witness ==
    /\ ret = "None"
    /\ pc = "running"
    /\ Len(out) >= 2
    /\ Len(best.steps) >= 3

\* The Sequences handed to a caller: by next(), and by run() to its callback.
Produced == {out[i] : i \in 1..Len(out)} \cup {rec.out[i] : i \in 1..Len(rec.out)}

\* C3: the first step of every produced Sequence is Initial and carries the
\* Problem given to AutomaticSimplifications::new (the same constraints and
\* labels; as_result has been applied to it by make_printable, which fills
\* in caches of the handle and nothing else).
C3_RootInvariant ==
    \A seq \in Produced :
        /\ seq.steps[1].tag = "Initial"
        /\ Bare(seq.steps[1].p) = InitialProblem

\* A Sequence of three or more steps produced by next() after an earlier one
\* that is not an initial part of it (so steps were popped in between), and
\* one produced by run().
C3_Witness ==
    /\ \E i \in 1..Len(out) : \E j \in 1..Len(out) :
          /\ i < j
          /\ Len(out[j].steps) >= 3
          /\ ~IsPrefix(out[i].steps, out[j].steps)
    /\ \E i \in 1..Len(rec.out) : Len(rec.out[i].steps) >= 3

\* Every Sequence the model holds: the live paths, the bests, the produced.
AllSequences == Produced \cup {sol, best, rec.sol, rec.best}

\* C4, as claimed: with maxlabels = 0 no produced Sequence has a Simplify
\* step.  It fails: maxlabels = 0 sends every Problem that has a label to the
\* simplification branch.
C4_Original ==
    cfg.maxlabels = 0 => \A seq \in Produced : ~HasSimplify(seq)

\* C4, amended: with maxlabels = 0 a Speedup step is pushed only on a Problem
\* with no labels and a Simplify step only on a Problem with labels, so when
\* the Problem has no labels at the root and after every speedup no Sequence
\* has a Simplify step: each is Initial followed by Speedup steps only.
C4_SpeedupOnlyWithoutLabels ==
    cfg.maxlabels = 0 =>
        \A seq \in AllSequences :
            /\ \A i \in 2..Len(seq.steps) :
                  /\ seq.steps[i].tag = "Speedup" => num_labels(seq.steps[i-1].p) = 0
                  /\ seq.steps[i].tag = "Simplify" => num_labels(seq.steps[i-1].p) > 0
            /\ (cfg.labels = 0 /\ cfg.growth = 0) => ~HasSimplify(seq)

\* maxlabels = 0, a Problem without labels, candidates on offer, and a
\* Sequence of three Speedup steps produced.
C4_Witness ==
    /\ cfg.maxlabels = 0 /\ cfg.labels = 0 /\ cfg.growth = 0
    /\ cfg.cands # <<>>
    /\ \E i \in 1..Len(out) : out[i].speedups = 3 /\ Len(out[i].steps) = 4

\* The place of candidate x in the list simplifications yields (0: not in it).
Position(x, list) ==
    IF \E k \in 1..Len(list) : list[k] = x
    THEN CHOOSE k \in 1..Len(list) : list[k] = x
    ELSE 0

\* Sequences a and b leave a common path by two different Simplify steps, the
\* one of a being yielded earlier by simplifications than the one of b.
ForksBefore(a, b, cands) ==
    \E k \in 1..Len(a.steps) - 1 :
        /\ k < Len(b.steps)
        /\ SubSeq(a.steps, 1, k) = SubSeq(b.steps, 1, k)
        /\ a.steps[k+1].tag = "Simplify"
        /\ b.steps[k+1].tag = "Simplify"
        /\ Position(a.steps[k+1].simpl, cands) < Position(b.steps[k+1].simpl, cands)

InOrder(list, cands) ==
    \A i \in 1..Len(list) : \A j \in 1..Len(list) :
        ForksBefore(list[i], list[j], cands) => i < j

\* The candidates of a SimplifySimplify marker already pulled from it.
Pulled(iter, cands) == SubSeq(cands, 1, Len(cands) - Len(iter))

\* C5: siblings are explored in the order simplifications yields them.  Of
\* two produced Sequences that fork at a node into the Simplify steps of
\* candidates A and B, A yielded before B, the one through A is produced
\* before the one through B: the list run() hands to its callback is in that
\* order, and every Sequence next() returns is appended after all it has
\* returned and forks before none of them.  And whenever the iterator is about
\* to pull from a node's candidates, sol is back at that node: the child of
\* every candidate already pulled has been entered from exactly this path (so
\* its step has been popped and its markers are gone from the top of the
\* stack), and no candidate still to come has been pushed.
C5_SiblingOrder ==
    /\ [][rec'.out # rec.out => InOrder(rec'.out, cfg.cands)]_vars
    /\ [][out' # out =>
            /\ out' = Append(out, Last(out'))
            /\ \A i \in 1..Len(out) : ~ForksBefore(Last(out'), out[i], cfg.cands)]_vars
    /\ []((stack # <<>> /\ Top.st = "SimplifySimplify") =>
            LET cands == T_simplifications(sol, cfg.maxlabels)
                done == Pulled(Top.iter, cands)
            IN  /\ Top.iter = SubSeq(cands, Len(done) + 1, Len(cands))
                /\ \A k \in 1..Len(done) : Append(Node(sol), done[k]) \in visited
                /\ \A k \in 1..Len(Top.iter) : Append(Node(sol), Top.iter[k]) \notin visited)

\* Candidates [A, B] at the root, a Sequence through A and one through B
\* produced, and B about to be pulled at a node after A's subtree was explored.
C5_Witness ==
    /\ cfg.cands = <<"A", "B">>
    /\ \E i \in 1..Len(out) : \E j \in 1..Len(out) :
          /\ Len(out[i].steps) >= 3 /\ out[i].steps[2] = Simplify("A", as_result(T_simplify(InitialProblem, "A")))
          /\ Len(out[j].steps) >= 3 /\ out[j].steps[2] = Simplify("B", as_result(T_simplify(InitialProblem, "B")))
    /\ stack # <<>> /\ Top.st = "SimplifySimplify" /\ Top.iter = <<"B">>

\* The step that transformation t makes of Problem p (before as_result).
StepOf(t, p) ==
    IF t = "speedup" THEN Speedup(assign_chars(speedup(p))) ELSE Simplify(t, T_simplify(p, t))

\* seq is the path from Initial to node n, with the speedup counter it has.
RECURSIVE Replay(_, _)
Replay(n, p) ==
    IF n = <<>> THEN <<>> ELSE <<StepOf(Head(n), p)>> \o Replay(Tail(n), StepOf(Head(n), p).p)

PathTo(n) ==
    [steps |-> <<Initial(InitialProblem)>> \o Replay(n, InitialProblem),
     speedups |-> Cardinality({i \in 1..Len(n) : n[i] = "speedup"})]

\* should_yield is true at exactly one node: the path cfg.yield.path.
YieldsAtOneNode == cfg.yield.kind = "at"

\* C6, as claimed: should_yield true at exactly one node of the tree, a node
\* being the root or any path reached by a push, gives exactly one Sequence.
\* It fails for a node that ends in a Simplify step.
C6_Original ==
    /\ (YieldsAtOneNode /\ ret = "None" /\ cfg.yield.path \in visited) =>
          out = <<make_printable(PathTo(cfg.yield.path))>>
    /\ (YieldsAtOneNode /\ rec.ran = "returned" /\ cfg.yield.path \in rec.nodes) =>
          rec.out = <<make_printable(PathTo(cfg.yield.path))>>

VisitNode(n) == n = <<>> \/ Last(n) = "speedup"

\* C6, amended: should_yield is evaluated at the root and at the paths that
\* end in a Speedup step, never at a path that ends in a Simplify step.  If it
\* is true at exactly one node, nothing but the path to that node is ever
\* produced and never twice, and if that node is reached and is the root or
\* ends in a Speedup step, the finished search has produced exactly that one
\* Sequence; if it ends in a Simplify step nothing is produced.
C6_SingleImprovement ==
    YieldsAtOneNode =>
        /\ \A seq \in Produced : seq = make_printable(PathTo(cfg.yield.path))
        /\ Len(out) <= 1 /\ Len(rec.out) <= 1
        /\ (ret = "None" /\ cfg.yield.path \in visited) =>
              out = IF VisitNode(cfg.yield.path)
                    THEN <<make_printable(PathTo(cfg.yield.path))>> ELSE <<>>
        /\ (rec.ran = "returned" /\ cfg.yield.path \in rec.nodes) =>
              rec.out = IF VisitNode(cfg.yield.path)
                        THEN <<make_printable(PathTo(cfg.yield.path))>> ELSE <<>>

\* The one node is [Initial, Simplify(B), Speedup], reached after the subtree
\* of candidate A was explored and undone; the search is finished and has
\* produced its one Sequence.
C6_Witness ==
    /\ YieldsAtOneNode
    /\ cfg.yield.path = <<"B", "speedup">>
    /\ cfg.cands = <<"A", "B">>
    /\ <<"A", "speedup">> \in visited
    /\ ret = "None"
    /\ Len(out) = 1
    /\ Len(rec.out) = 1

\* The scenario of C7: num_labels() is 0 always, should_yield is true exactly
\* on a path with exactly 2 Speedup steps, maxiter = 5.
C7_Scenario ==
    /\ cfg.labels = 0 /\ cfg.growth = 0
    /\ cfg.yield.kind = "speedups" /\ cfg.yield.k = 2
    /\ cfg.maxiter = 5

C7_Expected == <<make_printable(PathTo(<<"speedup", "speedup">>))>>

\* C7, as claimed: in the scenario the finished search has produced exactly
\* [Initial, Speedup, Speedup].  The claim leaves should_continue open, and
\* it fails for a should_continue that is false at the root.
C7_Original ==
    /\ (C7_Scenario /\ ret = "None") => out = C7_Expected
    /\ (C7_Scenario /\ rec.ran = "returned") => rec.out = C7_Expected

\* C7, amended: in the scenario, with a should_continue that is true exactly
\* while the path has fewer than maxiter Speedup steps, nothing but
\* [Initial, Speedup, Speedup] with speedup counter 2 is ever produced, never
\* twice; it has been produced by the time the live path is longer than it,
\* and the finished search has produced exactly that one Sequence.
C7_TwoSpeedups ==
    (C7_Scenario /\ cfg.cont = "budget") =>
        /\ IsPrefix(out, C7_Expected)
        /\ IsPrefix(rec.out, C7_Expected)
        /\ ret = "None" => out = C7_Expected
        /\ rec.ran = "returned" => rec.out = C7_Expected
        /\ Len(sol.steps) > 3 => out = C7_Expected
        /\ C7_Expected[1].speedups = 2
        /\ [i \in 1..3 |-> C7_Expected[1].steps[i].tag] = <<"Initial", "Speedup", "Speedup">>

\* The scenario has run to the end, through paths of 5 Speedup steps.
C7_Witness ==
    /\ C7_Scenario /\ cfg.cont = "budget"
    /\ ret = "None"
    /\ rec.ran = "returned"
    /\ Len(out) = 1
    /\ <<"speedup", "speedup", "speedup", "speedup", "speedup">> \in visited

\* Two Sequences are the same path: the same steps with the same
\* simplifications and Problems (up to the caches of as_result) and the same
\* speedup counter.
SamePath(a, b) ==
    /\ a.speedups = b.speedups
    /\ Len(a.steps) = Len(b.steps)
    /\ \A i \in 1..Len(a.steps) :
          /\ a.steps[i].tag = b.steps[i].tag
          /\ a.steps[i].simpl = b.steps[i].simpl
          /\ Bare(a.steps[i].p) = Bare(b.steps[i].p)

\* C8: a Sequence handed to the caller is a copy of the live path at the
\* moment of production: the step that produces it (the only step that
\* lengthens the caller's list, and by one) hands out the new best, which is
\* sol as it is in that step, finalized by make_printable, while sol itself
\* is left as it was; and no step changes a Sequence handed out earlier.  The
\* same holds of each Sequence run() passed to cb and sol at that call.
C8_SnapshotIsolated ==
    /\ [][/\ \A i \in 1..Len(out) : Len(out') >= i /\ out'[i] = out[i]
          /\ out' # out =>
                /\ out' = Append(out, best')
                /\ best' = make_printable(sol)
                /\ SamePath(Last(out'), sol)
                /\ sol' = sol]_vars
    /\ [](/\ Len(rec.live) = Len(rec.out)
          /\ \A i \in 1..Len(rec.out) :
                /\ SamePath(rec.out[i], rec.live[i])
                /\ rec.out[i] = make_printable(rec.live[i]))

\* A Sequence of three or more steps was produced, and since then sol has
\* been popped back and extended along another path and best replaced.
C8_Witness ==
    /\ Len(out) >= 2
    /\ Len(out[1].steps) >= 3
    /\ ~SamePath(out[1], best)
    /\ Len(sol.steps) >= 3
    /\ ~IsPrefix(Bare(out[1].steps[2].p).id, Node(sol))
    /\ Len(rec.out) >= 2

\* The iterator is about to evaluate should_yield, and it will be true.
AboutToYield ==
    /\ pc = "running"
    /\ stack # <<>>
    /\ Top.st = "Problem"
    /\ should_yield(sol, best, cfg.maxiter)

\* C9: next() returns at the first node where should_yield is true, with
\* exactly one Sequence.  The step that evaluates should_yield to true is the
\* step that returns: it lengthens the caller's list by one, leaves sol as it
\* is and leaves ProblemAfterCheckYield on top of the stack; no other step
\* lengthens the list.  From a state whose last strategy call is should_yield
\* no step changes sol, and the next strategy call is should_continue, made
\* for the ProblemAfterCheckYield marker: after a return, by the next call of
\* next() and not before.
C9_SuspendAtYield ==
    /\ [][/\ AboutToYield => pc' = "idle" /\ ret' = "Some" /\ Len(out') = Len(out) + 1
          /\ out' # out =>
                /\ AboutToYield
                /\ Len(out') = Len(out) + 1
                /\ sol' = sol
                /\ lastcall' = "should_yield"
                /\ stack' = Append(Front(stack), Marker("ProblemAfterCheckYield"))
          /\ lastcall = "should_yield" =>
                /\ sol' = sol
                /\ lastcall' \in {"should_yield", "should_continue"}
                /\ lastcall' = "should_continue" =>
                      pc = "running" /\ Top.st = "ProblemAfterCheckYield"]_vars
    /\ []((pc = "idle" /\ ret = "Some") =>
              /\ lastcall = "should_yield"
              /\ Top.st = "ProblemAfterCheckYield"
              /\ Last(out) = best)

\* next() has returned a second Sequence, on a path with a Simplify step, and
\* the caller has not called again.
C9_Witness ==
    /\ pc = "idle"
    /\ ret = "Some"
    /\ Len(out) = 2
    /\ HasSimplify(sol)
    /\ lastcall = "should_yield"

\* C10: for a strategy whose simplifications sequences are finite, whose
\* simplify strictly reduces num_labels and whose should_continue is false
\* once the path has maxiter Speedup steps, the traversal terminates: run()
\* returns, and after finitely many calls of next() the marker stack is empty
\* and next() returns None.
C10_Terminates ==
    /\ [](WellBehaved /\ rec.ran # "no" => rec.ran = "returned")
    /\ WellBehaved ~> (ret = "None" /\ stack = <<>>)

\* A search over a tree with two candidates per node, label growth and
\* maxiter = 2 has ended after producing three Sequences or more.
C10_Witness ==
    /\ WellBehaved
    /\ cfg.cands = <<"A", "B">> /\ cfg.growth = 1 /\ cfg.maxiter = 2 /\ cfg.labels = 2
    /\ rec.ran = "returned"
    /\ ret = "None"
    /\ Len(out) >= 3
    /\ Cardinality(visited) >= 10

\* should_continue derives its bound from maxiter: it is false on a path with
\* maxiter Speedup steps or more.
BoundedByMaxiter == cfg.cont \in {"budget", "ahead", "never"}

\* C11: along any path the speedup transform is applied at most maxiter
\* times, the bound being the one should_continue derives from maxiter: with
\* a should_continue that is false on a path of maxiter speedups, in every
\* reachable state sol.speedups <= maxiter, in the iterator and in run(), and
\* no Sequence (live, best or produced) has more than maxiter Speedup steps.
C11_SpeedupBound ==
    BoundedByMaxiter =>
        \A seq \in AllSequences :
            /\ seq.speedups <= cfg.maxiter
            /\ NumSpeedups(seq) <= cfg.maxiter

\* The bound is reached: with maxiter = 2 the live path has two Speedup steps
\* and Simplify steps between them, a Sequence with two Speedup steps has been
\* produced by next(), and one by run().
C11_Witness ==
    /\ BoundedByMaxiter
    /\ cfg.maxiter = 2
    /\ sol.speedups = 2 /\ HasSimplify(sol)
    /\ \E i \in 1..Len(out) : NumSpeedups(out[i]) = 2
    /\ \E i \in 1..Len(rec.out) : NumSpeedups(rec.out[i]) = 2

\* Every step of seq carries a Problem as_result has been applied to.
Finalized(seq) == \A i \in 1..Len(seq.steps) : seq.steps[i].p.result

\* C12: before a Sequence is handed to the caller, as_result has been applied
\* to the Problem of every one of its steps, Initial and the intermediate steps
\* included: every Sequence next() has returned and every Sequence run() has
\* passed to cb is finalized in all its steps, while no step of the live path
\* it was copied from is (the pass runs on the copy).
C12_AllStepsFinalized ==
    /\ \A seq \in Produced : Finalized(seq)
    /\ \A i \in 1..Len(sol.steps) : ~sol.steps[i].p.result
    /\ \A k \in 1..Len(rec.live) : \A i \in 1..Len(rec.live[k].steps) :
          ~rec.live[k].steps[i].p.result

\* Sequences of four steps or more, with a Simplify and a Speedup step before
\* the last step, have been produced by next() and by run().
C12_Witness ==
    /\ \E i \in 1..Len(out) :
          /\ Len(out[i].steps) >= 4
          /\ HasSimplify(out[i]) /\ NumSpeedups(out[i]) >= 2
    /\ \E i \in 1..Len(rec.out) :
          /\ Len(rec.out[i].steps) >= 4
          /\ HasSimplify(rec.out[i]) /\ NumSpeedups(rec.out[i]) >= 2

\* C13: a diagram operation called on a Problem whose diagram has not been
\* computed panics, and only then: merge_equivalent_labels panics exactly when
\* diagram_direct is None, the two adjacency operations exactly when
\* diagram_indirect is None.  Whatever an operation returns was computed from
\* the diagram the Problem has: every edge of a returned adjacency map is an
\* edge of diagram_indirect (reversed for the inverse map) and every edge of
\* diagram_indirect is in the map, so no map comes from a defaulted or empty
\* diagram; a returned merge has only labels of the Problem and labels its
\* diagram's groups merge into.
C13_DiagramRequired ==
    /\ outcome.op = "merge_equivalent_labels" =>
          (outcome.kind = "panic" <=> prob.diagram_direct = None)
    /\ outcome.op \in {"reachability_adj", "inverse_reachability_adj"} =>
          (outcome.kind = "panic" <=> prob.diagram_indirect = None)
    /\ (outcome.op = "reachability_adj" /\ outcome.kind = "returned") =>
          /\ \A a \in DOMAIN outcome.v : \A b \in outcome.v[a] :
                <<a, b>> \in prob.diagram_indirect[1]
          /\ \A e \in prob.diagram_indirect[1] :
                e[1] \in DOMAIN outcome.v /\ e[2] \in outcome.v[e[1]]
          /\ labels(prob) \subseteq DOMAIN outcome.v
    /\ (outcome.op = "inverse_reachability_adj" /\ outcome.kind = "returned") =>
          /\ \A b \in DOMAIN outcome.v : \A a \in outcome.v[b] :
                <<a, b>> \in prob.diagram_indirect[1]
          /\ \A e \in prob.diagram_indirect[1] :
                e[2] \in DOMAIN outcome.v /\ e[1] \in outcome.v[e[2]]
          /\ labels(prob) \subseteq DOMAIN outcome.v
    /\ (outcome.op = "merge_equivalent_labels" /\ outcome.kind = "returned") =>
          LET groups == prob.diagram_direct[1].groups
          IN  /\ outcome.v.labels \subseteq
                    labels(prob) \cup {groups[i].dest : i \in 1..Len(groups)}
              /\ groups = <<>> => outcome.v.labels = labels(prob)

\* A parsed Problem with two labels and no diagram: the adjacency operation
\* called on it has panicked.
C13_Witness ==
    /\ prob = from_string({1, 2})
    /\ outcome.op = "reachability_adj"
    /\ outcome.kind = "panic"

\* n is a path that ends in a Simplify step.
SimplifyNode(n) == n # <<>> /\ Last(n) \in Simplifications

\* A step was pushed beneath node n.
HasChild(n, nodes) == \E t \in Transforms : Append(n, t) \in nodes

\* log holds a call of should_yield on path n and, later, one of
\* should_continue on path n.
VisitedBy(log, n) ==
    \E i \in 1..Len(log) : \E j \in 1..Len(log) :
        /\ i < j
        /\ log[i].fn = "should_yield" /\ log[i].at = n
        /\ log[j].fn = "should_continue" /\ log[j].at = n

\* C14, as claimed: after a Simplify step is pushed the search enters visit on
\* that child, so should_yield and then should_continue have been evaluated on
\* a path ending in a Simplify step before a further step is pushed beneath
\* it.  It fails: both engines enter expand on the child.
C14_Original ==
    /\ \A n \in visited : (SimplifyNode(n) /\ HasChild(n, visited)) => VisitedBy(calls, n)
    /\ \A n \in rec.nodes : (SimplifyNode(n) /\ HasChild(n, rec.nodes)) => VisitedBy(rec.calls, n)

\* The calls of should_yield and should_continue made by next() and by run().
AllCalls == {calls[i] : i \in 1..Len(calls)} \cup {rec.calls[i] : i \in 1..Len(rec.calls)}

\* C14, amended: after a Simplify step is pushed for a candidate the search
\* enters expand on that child, not visit.  Neither should_yield nor
\* should_continue is ever evaluated on a path ending in a Simplify step (they
\* are evaluated at the root and on paths ending in a Speedup step only);
\* while the live path ends in a Simplify step the iterator's top marker is
\* Simplify (the label test is next), SimplifySimplify (the child's own
\* candidates) or SimplifyAfterSimplifyCall (the step is about to be popped),
\* never Problem or ProblemAfterCheckYield; and no path ending in a Simplify
\* step is ever recorded as best or produced.
C14_ExpandAfterSimplify ==
    /\ \A c \in AllCalls : VisitNode(c.at)
    /\ \A seq \in Produced \cup {best, rec.best} : Last(seq.steps).tag # "Simplify"
    /\ (stack # <<>> /\ Last(sol.steps).tag = "Simplify") =>
          Top.st \in {"Simplify", "SimplifySimplify", "SimplifyAfterSimplifyCall"}

\* The live path is [.., Simplify, Simplify, Speedup] and should_yield is
\* about to be evaluated on it; Sequences with a Simplify step have been
\* produced by next() and by run().
C14_Witness ==
    /\ Len(sol.steps) >= 4
    /\ sol.steps[Len(sol.steps) - 2].tag = "Simplify"
    /\ sol.steps[Len(sol.steps) - 1].tag = "Simplify"
    /\ Last(sol.steps).tag = "Speedup"
    /\ stack # <<>> /\ Top.st = "Problem"
    /\ \E i \in 1..Len(out) : HasSimplify(out[i])
    /\ \E i \in 1..Len(rec.out) : HasSimplify(rec.out[i])

\* The markers pushed for a step: popping one undoes the step.
AfterMarkers == {"SimplifyAfterProblemCall", "SimplifyAfterSimplifyCall"}

\* The iterator is about to pop an After* marker: the subtree entered by the
\* last step on sol has been explored.
SubtreeFinished == pc = "running" /\ stack # <<>> /\ Top.st \in AfterMarkers

\* C15: stack symmetry.  When the exploration of a subtree entered by pushing
\* a step finishes, sol (its steps and its speedup counter) equals its value
\* immediately before that step was pushed: in the iterator the step that
\* pops an After* marker sets sol to the value saved at the push, in run()
\* every undo after a returning call restores the value before the push, and
\* when run() has returned sol is [Initial] again.  Pushes and undos are
\* last-in first-out: sol changes only by one step pushed on top of it or by
\* the undo of its top step, the steps beneath the top are those of the
\* values saved, a push puts the step's After* marker beneath the marker of
\* the child, and the stack holds one After* marker per step pushed.
C15_StackSymmetry ==
    /\ [][SubtreeFinished =>
            /\ sol' = Last(saved)
            /\ Len(sol'.steps) = Len(sol.steps) - 1
            /\ stack' = Front(stack)]_vars
    /\ [][sol' # sol =>
            \/ SubtreeFinished
            \/ /\ Front(sol'.steps) = sol.steps
               /\ saved' = Append(saved, sol)
               /\ Len(stack') > Len(stack)
               /\ stack'[Len(stack') - 1].st \in AfterMarkers]_vars
    /\ [](/\ Len(saved) = Len(sol.steps) - 1
          /\ \A k \in 1..Len(saved) : saved[k].steps = SubSeq(sol.steps, 1, k)
          /\ Cardinality({k \in 1..Len(stack) : stack[k].st \in AfterMarkers}) = Len(saved))
    /\ [](rec.restored)
    /\ [](rec.ran = "returned" => rec.sol = Sequence_new(InitialProblem))

\* The subtree below [Initial, Simplify] has been explored two steps deep and
\* more, through Speedup and Simplify steps, and its After* marker is about to
\* be popped; run() has returned after exploring the same tree.
C15_Witness ==
    /\ SubtreeFinished
    /\ Top.st = "SimplifyAfterSimplifyCall"
    /\ Len(sol.steps) = 2
    /\ \E n \in visited :
          /\ Len(n) >= 4 /\ n[1] = Node(sol)[1]
          /\ \E i \in 2..Len(n) : n[i] = "speedup"
          /\ \E i \in 2..Len(n) : n[i] \in Simplifications
    /\ rec.ran = "returned"
    /\ Cardinality(rec.nodes) >= 8

\* C16: in every reachable state the speedup counter of sol, of best and of
\* every produced Sequence is the number of Speedup steps in its step list:
\* in the iterator state by state (also of every value of sol saved at a
\* push), in run() at every call of problem, after every push and after every
\* undo.  pop_speedup is called only on a path whose last step is a Speedup
\* step and whose counter is 1 or more, so its decrement never underflows.
C16_CounterMatchesSteps ==
    /\ \A seq \in AllSequences : Counted(seq) /\ seq.speedups >= 0
    /\ \A k \in 1..Len(saved) : Counted(saved[k])
    /\ \A k \in 1..Len(rec.live) : Counted(rec.live[k])
    /\ rec.counted
    /\ (stack # <<>> /\ Top.st = "SimplifyAfterProblemCall") =>
          sol.speedups >= 1 /\ Last(sol.steps).tag = "Speedup"

\* The iterator is about to undo a Speedup step that lies above a Simplify
\* step and another Speedup step, after Sequences were produced; run() has
\* returned.
C16_Witness ==
    /\ pc = "running" /\ stack # <<>> /\ Top.st = "SimplifyAfterProblemCall"
    /\ sol.speedups = 2
    /\ HasSimplify(sol)
    /\ Len(out) >= 2
    /\ best.speedups >= 1
    /\ rec.ran = "returned"

\* Every step of seq after Initial was pushed on the right side of the label
\* test: a Speedup step on a Problem with num_labels <= maxlabels, a Simplify
\* step on a Problem with num_labels > maxlabels.
RightBranch(seq) ==
    \A i \in 2..Len(seq.steps) :
        /\ seq.steps[i].tag = "Speedup" => num_labels(seq.steps[i-1].p) <= cfg.maxlabels
        /\ seq.steps[i].tag = "Simplify" => num_labels(seq.steps[i-1].p) > cfg.maxlabels

\* No node of the tree has both a Speedup child and a Simplify child.
OneKindOfChild(nodes) ==
    \A n \in nodes :
        Append(n, "speedup") \in nodes => \A x \in Simplifications : Append(n, x) \notin nodes

\* The iterator is about to expand the node sol is at.
Expanding == pc = "running" /\ stack # <<>> /\ Top.st = "Simplify"

\* C17: at a node being expanded a Speedup step is pushed if and only if the
\* current Problem's num_labels() <= maxlabels: then the step of the iterator
\* pushes exactly that one step and calls no method of the strategy
\* (simplifications is not called at that node, which gets no Simplify
\* child); otherwise the step calls simplifications and pushes nothing, and
\* the node gets no Speedup child.  Hence in every path, of next() and of
\* run(), the Problem before a Speedup step has num_labels <= maxlabels and
\* the Problem before a Simplify step has num_labels > maxlabels.
C17_LabelTest ==
    /\ [][Expanding =>
            IF num_labels(current(sol)) <= cfg.maxlabels
            THEN /\ sol' = push_speedup(sol)
                 /\ Last(sol'.steps).tag = "Speedup"
                 /\ lastcall' = lastcall
                 /\ Top'.st = "Problem"
            ELSE /\ sol' = sol
                 /\ lastcall' = "simplifications"
                 /\ Top'.st = "SimplifySimplify"]_vars
    /\ [][(Len(sol'.steps) > Len(sol.steps) /\ Last(sol'.steps).tag = "Simplify") =>
            num_labels(current(sol)) > cfg.maxlabels]_vars
    /\ [](\A seq \in AllSequences : RightBranch(seq))
    /\ [](\A k \in 1..Len(rec.live) : RightBranch(rec.live[k]))
    /\ [](OneKindOfChild(visited) /\ OneKindOfChild(rec.nodes))

\* maxlabels = 1: the root has 2 labels and got the Simplify children A and
\* B, a Speedup step was pushed beneath a Simplify step, and the speedup,
\* adding a label, has led to a further Simplify step and a Speedup step
\* beneath that; run() has explored the tree.
C17_Witness ==
    /\ cfg.maxlabels = 1 /\ cfg.labels = 2 /\ cfg.growth = 1
    /\ <<"A">> \in visited /\ <<"B">> \in visited
    /\ \E n \in visited :
          /\ Len(n) >= 4
          /\ n[2] = "speedup" /\ n[3] \in Simplifications /\ n[4] = "speedup"
    /\ \E n \in rec.nodes :
          /\ Len(n) >= 4
          /\ n[2] = "speedup" /\ n[3] \in Simplifications /\ n[4] = "speedup"

\* c is a call of should_continue that returned false.
Pruned(c) == c.fn = "should_continue" /\ ~c.val

\* Path n extends path m by a step or more.
Extends(n, m) == Len(n) > Len(m) /\ SubSeq(n, 1, Len(m)) = m

\* should_continue has just returned false on the path sol is at.
JustPruned == calls # <<>> /\ Pruned(Last(calls)) /\ Last(calls).at = Node(sol)

\* C18: pruning.  If should_continue returns false at a visited node, no step
\* is ever pushed beneath that node: the step that evaluates it pops the
\* node's marker and leaves sol alone, the node never gets a child, in next()
\* or in run(); the next change to sol is the undo of the node's own step, and
\* if the node is the root the marker stack is empty and the traversal ends;
\* and no Sequence whose path extends that node's path is produced.
C18_Pruning ==
    /\ [][/\ (calls' # calls /\ Pruned(Last(calls'))) =>
               /\ stack' = Front(stack)
               /\ sol' = sol
          /\ (sol' # sol /\ JustPruned) =>
               /\ SubtreeFinished
               /\ sol' = Last(saved)
               /\ Len(sol'.steps) = Len(sol.steps) - 1
          /\ out' # out =>
               \A i \in 1..Len(calls) :
                   Pruned(calls[i]) => ~Extends(Node(Last(out')), calls[i].at)
          /\ visited' # visited =>
               \A i \in 1..Len(calls) :
                   Pruned(calls[i]) => ~HasChild(calls[i].at, visited')
          /\ rec' # rec =>
               \A i \in 1..Len(rec'.calls) :
                   Pruned(rec'.calls[i]) =>
                       /\ ~HasChild(rec'.calls[i].at, rec'.nodes)
                       /\ \A k \in 1..Len(rec'.out) :
                             ~Extends(Node(rec'.out[k]), rec'.calls[i].at)]_vars
    /\ []((JustPruned /\ Node(sol) = <<>>) =>
            (stack = <<>> /\ sol = Sequence_new(InitialProblem)))

\* should_continue has returned false at a node two steps or more below the
\* root whose path was produced, the node's step has been undone, and the
\* search has gone on to call should_yield elsewhere and to produce another
\* Sequence; run() has returned.
C18_Witness ==
    /\ \E i \in 1..Len(calls) :
          /\ Pruned(calls[i])
          /\ Len(calls[i].at) >= 2
          /\ \E k \in 1..Len(out) : Node(out[k]) = calls[i].at
          /\ ~IsPrefix(calls[i].at, Node(sol))
          /\ \E j \in 1..Len(calls) : j > i /\ calls[j].fn = "should_yield" /\ calls[j].val
    /\ rec.ran = "returned"

\* In a log of calls the best passed on is replaced only by a should_yield
\* that returned true, and then by the finalized copy of the path that call
\* was given: the call after should_yield gets the path of that call as best
\* if it returned true and the best of that call if not, and the call after
\* should_continue gets the best of that call.
BestOnlyByYield(log) ==
    \A i \in 1..Len(log) - 1 :
        IF log[i].fn = "should_yield" /\ log[i].val
        THEN log[i+1].best = log[i].at /\ log[i+1].printable
        ELSE log[i+1].best = log[i].best /\ log[i+1].printable = log[i].printable

\* The Sequence best is after the Sequences of list were produced.
LatestOf(list) == IF list = <<>> THEN Sequence_new(InitialProblem) ELSE Last(list)

\* C19: best changes only in a step where should_yield returned true, and it
\* then becomes a complete copy of sol, finalized, whatever it was before
\* (the same steps, simplifications, Problems and speedup counter: nothing of
\* the old best is left); in every reachable state best is the most recently
\* produced Sequence, or [Initial] with counter 0 if nothing has been
\* produced.  In run() likewise: between two calls of the strategy best is
\* replaced only by a should_yield that returned true, by the path it was
\* given.
C19_BestWholesale ==
    /\ [][/\ best' # best =>
               /\ pc = "running" /\ Top.st = "Problem"
               /\ should_yield(sol, best, cfg.maxiter)
               /\ best' = make_printable(sol)
               /\ SamePath(best', sol)
               /\ out' = Append(out, best')
          /\ rec' # rec => BestOnlyByYield(rec'.calls)]_vars
    /\ [](best = LatestOf(out))
    /\ [](rec.best = LatestOf(rec.out))
    /\ [](BestOnlyByYield(calls))

\* best has been replaced three times or more, the last time by a path that is
\* shorter than the best before it and no initial part of it; run() has
\* returned with the same best.
C19_Witness ==
    /\ Len(out) >= 3
    /\ best = Last(out)
    /\ Len(best.steps) < Len(out[Len(out) - 1].steps)
    /\ ~IsPrefix(best.steps, out[Len(out) - 1].steps)
    /\ rec.ran = "returned"
    /\ ret = "None"
    /\ rec.best = best

\* b is the call of should_continue that belongs to the call a of
\* should_yield: on the same path, and given the best as a left it (the path
\* itself, finalized, if a returned true; the best a was given if not).
ContinueAfter(a, b) ==
    /\ a.fn = "should_yield" /\ b.fn = "should_continue"
    /\ b.at = a.at
    /\ IF a.val THEN b.best = a.at /\ b.printable
       ELSE b.best = a.best /\ b.printable = a.printable

\* A log is a sequence of visits: should_yield, then should_continue.
InPairs(log) ==
    \A i \in 1..Len(log) :
        IF i % 2 = 1 THEN log[i].fn = "should_yield" ELSE ContinueAfter(log[i-1], log[i])

\* No method is called twice on the same path.
OncePerNode(log) ==
    \A i \in 1..Len(log) : \A j \in 1..Len(log) :
        (i < j /\ log[i].fn = log[j].fn) => log[i].at # log[j].at

\* Every node of nodes where visit is entered (the root, and every path ending
\* in a Speedup step) has its two calls in log.
AllVisited(log, nodes) ==
    \A n \in nodes : VisitNode(n) =>
        /\ \E i \in 1..Len(log) : log[i].fn = "should_yield" /\ log[i].at = n
        /\ \E i \in 1..Len(log) : log[i].fn = "should_continue" /\ log[i].at = n

\* C20: at every node where visit is entered should_yield is evaluated
\* exactly once and then should_continue exactly once, on the same unchanged
\* live path, and should_continue is given the best as that node's yield left
\* it; should_continue is evaluated whether or not the node yielded.  Every
\* call the iterator makes is on the path sol is at and is the first of its
\* kind on that path; calls come in pairs, should_yield then should_continue
\* on the same path, with sol unchanged in between, also when next() returned
\* in between; the calls of run() form the same pairs, and the iterator's
\* calls are, call for call with the same arguments and answers, an initial
\* part of run()'s and all of them when next() has returned None.
C20_YieldThenContinue ==
    /\ [][/\ calls' # calls =>
               /\ calls' = Append(calls, Last(calls'))
               /\ Last(calls').at = Node(sol)
               /\ Last(calls').best = Node(best)
               /\ sol' = sol
               /\ \A i \in 1..Len(calls) :
                     calls[i].fn = Last(calls').fn => calls[i].at # Last(calls').at
               /\ IF Len(calls) % 2 = 0
                  THEN Last(calls').fn = "should_yield"
                  ELSE ContinueAfter(Last(calls), Last(calls'))
          /\ Len(calls) % 2 = 1 => sol' = sol
          /\ rec' # rec =>
               /\ InPairs(rec'.calls)
               /\ OncePerNode(rec'.calls)
               /\ rec'.ran = "returned" =>
                     Len(rec'.calls) % 2 = 0 /\ AllVisited(rec'.calls, rec'.nodes)]_vars
    /\ [](rec.ran # "no" => IsPrefix(calls, rec.calls))
    /\ []((pc = "idle" /\ ret = "Some") =>
             /\ Len(calls) % 2 = 1
             /\ Last(calls).val
             /\ Last(calls).at = Node(sol))
    /\ [](ret = "None" =>
             /\ Len(calls) % 2 = 0
             /\ AllVisited(calls, visited)
             /\ rec.ran = "returned" => calls = rec.calls)

\* next() has returned at a node that yielded, before should_continue is
\* evaluated there; earlier a node that did not yield was continued from, and
\* another node that yielded was not; run() has returned.
C20_Witness ==
    /\ pc = "idle" /\ ret = "Some"
    /\ Len(calls) >= 7
    /\ \E i \in 1..Len(calls) - 1 :
          ~calls[i].val /\ calls[i].fn = "should_yield" /\ calls[i+1].val
    /\ \E i \in 1..Len(calls) - 1 :
          calls[i].val /\ calls[i].fn = "should_yield" /\ ~calls[i+1].val
    /\ rec.ran = "returned"

\* C21: in every state sol has steps, its first step is Initial and no other
\* step is; a step of the program that shortens sol finds it with two or
\* more steps and removes the last one only, so the Initial step is never
\* popped and current() always has a last step to read.  The same holds in
\* run(): at each of its calls and undos, and of the sol it leaves.
C21_InitialKept ==
    /\ [](Rooted(sol) /\ Rooted(rec.sol) /\ rec.rooted)
    /\ [][Len(sol'.steps) < Len(sol.steps) =>
            /\ Len(sol.steps) >= 2
            /\ sol'.steps = Front(sol.steps)]_vars

\* The iterator is back at the root with candidates still to try, after a
\* Simplify step and the steps under it were pushed and popped (a Sequence of
\* three steps was returned on the way), and run() has done its pops too.
C21_Witness ==
    /\ pc = "running"
    /\ stack # <<>>
    /\ Top.st = "SimplifySimplify"
    /\ Top.iter # <<>>
    /\ Top.iter # cfg.cands
    /\ Len(sol.steps) = 1
    /\ \E i \in 1..Len(out) : Len(out[i].steps) >= 3
    /\ rec.ran = "returned"
    /\ \E n \in rec.nodes : Len(n) >= 2

\* The marker that undoes a step of sol.
AfterOf(step) ==
    IF step.tag = "Speedup" THEN "SimplifyAfterProblemCall" ELSE "SimplifyAfterSimplifyCall"

IsAfterMarker(m) == m.st \in AfterMarkers

\* The After* markers of the stack, bottom to top.
Undos == SelectSeq(stack, IsAfterMarker)

CountOf(st) == Cardinality({k \in 1..Len(stack) : stack[k].st = st})

\* C22: between the iterations of the loop of next(), and so whenever next()
\* has returned, the marker stack and sol correspond: the stack holds as many
\* SimplifyAfterProblemCall markers as sol.speedups, as many
\* SimplifyAfterSimplifyCall markers as sol has Simplify steps, and bottom to
\* top the After* markers are, one for one and in the same order, the markers
\* of the steps of sol after Initial.
C22_StackMatchesPath ==
    /\ CountOf("SimplifyAfterProblemCall") = sol.speedups
    /\ CountOf("SimplifyAfterSimplifyCall")
         = Cardinality({i \in 1..Len(sol.steps) : sol.steps[i].tag = "Simplify"})
    /\ Len(Undos) = Len(sol.steps) - 1
    /\ \A i \in 1..Len(Undos) : Undos[i].st = AfterOf(sol.steps[i + 1])

\* next() has returned a Sequence while sol is Initial, Speedup, Simplify,
\* Speedup and more: markers of both kinds are on the stack, interleaved.
C22_Witness ==
    /\ pc = "idle"
    /\ ret = "Some"
    /\ Len(sol.steps) >= 4
    /\ sol.steps[2].tag = "Speedup"
    /\ sol.steps[3].tag = "Simplify"
    /\ sol.steps[4].tag = "Speedup"
    /\ out # <<>>
    /\ Bare(Last(Last(out).steps).p) = Bare(current(sol))

\* request() has ended: it returned, or an operation it called panicked.
Ended == apc \in {"returned", "panicked"}

\* What request() sends for an item of a search.
ItemResponse(tag, r) == IF r.kind = "Ok" THEN Response(tag, r.v) ELSE Response("E", r.v)

\* The responses of a call of request(), the call being over when ended:
\* Done is sent at most once and nothing after it; a Ping is answered by Pong
\* alone; any other request is answered by P, S, L, U and E responses and
\* then Done, and a search by one response per item, in the order of the
\* items.
Replies(ended) ==
    /\ \A i \in 1..Len(resp) : resp[i] = Done => i = Len(resp)
    /\ req.kind = "Ping" =>
          /\ \A i \in 1..Len(resp) : resp[i] # Done
          /\ ended => resp = <<Pong>>
    /\ (ended /\ req.kind # "Ping") =>
          /\ resp # <<>>
          /\ Last(resp) = Done
          /\ \A i \in 1..(Len(resp) - 1) : resp[i].tag \in {"P", "S", "L", "U", "E"}
          /\ req.kind \notin {"AutoLb", "AutoUb"} => Len(resp) = 2
          /\ req.kind = "AutoLb" =>
                Front(resp) = [i \in 1..Len(search.items) |-> ItemResponse("L", search.items[i])]
          /\ req.kind = "AutoUb" =>
                Front(resp) = [i \in 1..Len(search.items) |-> ItemResponse("U", search.items[i])]

\* C23: for every Request other than Ping, request() calls the callback with
\* Done exactly once, as its last call, after the P, S, L, U and E responses
\* of the request (for AutoLb and AutoUb one L or U or E per item of the
\* search, in its order); for Ping it calls it once, with Pong, and never
\* with Done.  It fails: rename and harden panic on a Problem that lacks
\* what the request names, and request() ends without any response.
C23_DoneAlways == Replies(Ended)

\* What holds: the calls of request() that return have answered as C23 says,
\* and those that do not are Harden and Rename requests ended by a panic
\* before anything was sent.
C23_DoneOnReturn ==
    /\ Replies(apc = "returned")
    /\ apc = "panicked" => req.kind \in {"Harden", "Rename"} /\ resp = <<>>

\* A Rename request with two well-formed new labels, on a Problem that has
\* no old labels, has ended in the panic of the unwrap: nothing was sent.
C23_Witness ==
    /\ apc = "panicked"
    /\ req.kind = "Rename"
    /\ req.p = FreshProblem
    /\ Len(req.arg) = 2
    /\ resp = <<>>

====
